---- MODULE Spec2Model ----
(***************************************************************************)
(* Model of the paper extraction pipelines of blazing-art-mcp:             *)
(*   src/extract_papers.py      (the basic pipeline)                       *)
(*   src/enhance_extraction.py  (the enhanced pipeline)                    *)
(* Both scripts page through a Qdrant collection, synthesise entity and    *)
(* event candidates, merge them into data/entities.json and                *)
(* data/events.json, sort, and write both files back.                      *)
(*                                                                         *)
(* Python strings are TLA+ strings; a character is a string of length 1.   *)
(* Python lists are sequences; a dict whose keys are fixed is a record.    *)
(* None is modelled as 0 wherever the code only tests truthiness of an     *)
(* int-or-None value (year, offset): 0 and None are both falsy.            *)
(***************************************************************************)
EXTENDS Integers, Sequences, FiniteSets, TLC

VARIABLES
    pipeline,      \* which script runs: "enhanced" or "basic"
    pc,            \* position of the running script inside main()
    srcPages,      \* the pages the corpus source holds during this run
    papers,        \* extract_all_papers: papers fetched so far
    offset,        \* extract_all_papers: cursor of the next page (None = 0)
    new_entities,  \* candidate entities returned by the extraction
    new_events,    \* candidate events returned by the extraction
    entities,      \* main: in-memory entity list
    events,        \* main: in-memory event list
    entFile,       \* data/entities.json
    evFile,        \* data/events.json
    prevEnt,       \* data/entities.json as it was when the run started
    prevEv,        \* data/events.json as it was when the run started
    runs,          \* number of runs started so far
    arg_url,       \* extract_year_from_url: the url it is called with
    ret_year,      \* extract_year_from_url: what it returned (None = 0)
    counts         \* enhanced_extraction: its counters after the loop

vars == <<pipeline, pc, srcPages, papers, offset, new_entities, new_events,
          entities, events, entFile, evFile, prevEnt, prevEv, runs, arg_url, ret_year, counts>>

None == 0

(***************************************************************************)
(* Python str: code points, character classes, case mapping, comparison.   *)
(***************************************************************************)

\* The printable ASCII characters in code point order, from 32 (space) on.
\* A grave accent (code point 96) cannot be written in a TLA+ string: a tab
\* holds its place, and no string of the model contains either.
Ascii ==
    " !\"#$%&'()*+,-./0123456789:;<=>?@ABCDEFGHIJKLMNOPQRSTUVWXYZ[\\]^_\tabcdefghijklmnopqrstuvwxyz{|}~"

Char(s, i) == SubSeq(s, i, i)

AsciiChars == {Char(Ascii, i) : i \in 1..Len(Ascii)}

\* ord(c)
Ord == [c \in AsciiChars |-> 31 + (CHOOSE i \in 1..Len(Ascii) : Char(Ascii, i) = c)]

\* chr(n)
Chr(n) == Char(Ascii, n - 31)

UpperChars == {Chr(n) : n \in 65..90}
LowerChars == {Chr(n) : n \in 97..122}
DigitChars == {Chr(n) : n \in 48..57}
AlphaChars == UpperChars \cup LowerChars
\* \w of re for ASCII text: [A-Za-z0-9_]
WordChars == AlphaChars \cup DigitChars \cup {"_"}

LowerChar == [c \in AsciiChars |-> IF c \in UpperChars THEN Chr(Ord[c] + 32) ELSE c]
UpperChar == [c \in AsciiChars |-> IF c \in LowerChars THEN Chr(Ord[c] - 32) ELSE c]

\* "".join(strs[lo..hi]), by halves
RECURSIVE JoinRange(_, _, _)
JoinRange(strs, lo, hi) ==
    IF lo > hi THEN ""
    ELSE IF lo = hi THEN strs[lo]
    ELSE LET mid == (lo + hi) \div 2
         IN JoinRange(strs, lo, mid) \o JoinRange(strs, mid + 1, hi)

\* "".join(strs)
Join(strs) == JoinRange(strs, 1, Len(strs))

\* str.lower()
Lower(s) == Join([i \in 1..Len(s) |-> LowerChar[Char(s, i)]])

\* str.title(): the first letter of every run of letters is upper-cased,
\* the other letters of the run are lower-cased.
Title(s) ==
    Join([i \in 1..Len(s) |->
            LET c == Char(s, i)
            IN IF c \notin AlphaChars THEN c
               ELSE IF i > 1 /\ Char(s, i - 1) \in AlphaChars THEN LowerChar[c]
               ELSE UpperChar[c]])

\* a < b on str: lexicographic by code point, a proper prefix is smaller.
StrLess(a, b) ==
    \E i \in 1..(IF Len(a) < Len(b) THEN Len(a) + 1 ELSE Len(b)) :
        /\ SubSeq(a, 1, i - 1) = SubSeq(b, 1, i - 1)
        /\ \/ i > Len(a)
           \/ Ord[Char(a, i)] < Ord[Char(b, i)]

\* sub in s, at position i
MatchAt(s, sub, i) ==
    /\ i >= 1
    /\ i + Len(sub) - 1 <= Len(s)
    /\ SubSeq(s, i, i + Len(sub) - 1) = sub

\* sub in s
Contains(s, sub) == \E i \in 1..(Len(s) - Len(sub) + 1) : MatchAt(s, sub, i)

\* s.count(sub): non-overlapping occurrences, left to right (sub non-empty)
RECURSIVE CountFrom(_, _, _)
CountFrom(s, sub, i) ==
    IF i + Len(sub) - 1 > Len(s) THEN 0
    ELSE IF MatchAt(s, sub, i) THEN 1 + CountFrom(s, sub, i + Len(sub))
    ELSE CountFrom(s, sub, i + 1)

Count(s, sub) == CountFrom(s, sub, 1)

RECURSIVE ReplaceFrom(_, _, _, _)
ReplaceFrom(s, old, new, i) ==
    IF i > Len(s) THEN ""
    ELSE IF MatchAt(s, old, i) THEN new \o ReplaceFrom(s, old, new, i + Len(old))
    ELSE Char(s, i) \o ReplaceFrom(s, old, new, i + 1)

\* s.replace(old, new), old non-empty
Replace(s, old, new) == ReplaceFrom(s, old, new, 1)

\* sep.join(strs)
JoinWith(sep, strs) ==
    Join([i \in 1..(2 * Len(strs) - 1) |-> IF i % 2 = 1 THEN strs[(i + 1) \div 2] ELSE sep])

\* s[:n]
Prefix(s, n) == SubSeq(s, 1, IF Len(s) < n THEN Len(s) ELSE n)

\* str(n) for n >= 0: decimal digits, most significant first
RECURSIVE Str(_)
Str(n) == IF n < 10 THEN Chr(48 + n) ELSE Str(n \div 10) \o Chr(48 + (n % 10))

\* int(s) for a string of decimal digits
RECURSIVE IntFrom(_, _, _)
IntFrom(s, i, acc) ==
    IF i > Len(s) THEN acc ELSE IntFrom(s, i + 1, 10 * acc + (Ord[Char(s, i)] - 48))

Int_(s) == IntFrom(s, 1, 0)

\* the end (exclusive) of the longest run of characters of class cls from i
RECURSIVE RunEnd(_, _, _)
RunEnd(s, cls, i) ==
    IF i <= Len(s) /\ Char(s, i) \in cls THEN RunEnd(s, cls, i + 1) ELSE i

\* \b of re holds between positions i-1 and i
Boundary(s, i) ==
    LET before == i > 1 /\ i - 1 <= Len(s) /\ Char(s, i - 1) \in WordChars
        after  == i >= 1 /\ i <= Len(s) /\ Char(s, i) \in WordChars
    IN before # after

(***************************************************************************)
(* Python lists, sets and Counters.                                        *)
(***************************************************************************)

Range(seq) == {seq[i] : i \in 1..Len(seq)}

\* The sequence f[1], ..., f[Len(f)] as a tuple, each element computed once
Listed(f) == f \o <<>>

\* list.sort(key=..., reverse=...) and sorted(): a stable sort. keys[i] is
\* the key of seq[i]. An element goes after every element whose key sorts
\* before its own and after the earlier elements with an equal key; with
\* reverse the order of the keys is reversed and equal keys keep their order.
\* StrRanks[i]: how many distinct keys sort before the str keys[i].
StrRanks(keys, reverse) ==
    Listed([i \in 1..Len(keys) |->
        Cardinality({l \in Range(keys) :
            IF reverse THEN StrLess(keys[i], l) ELSE StrLess(l, keys[i])})])

\* IntRanks[i]: how many distinct keys sort before the int keys[i]
IntRanks(keys, reverse) ==
    Listed([i \in 1..Len(keys) |->
        Cardinality({l \in Range(keys) :
            IF reverse THEN keys[i] < l ELSE l < keys[i]})])

\* The place of each element in the sorted list, kr[i] being the rank of
\* its key
SortRanks(kr) ==
    Listed([i \in 1..Len(kr) |->
        Cardinality({j \in 1..Len(kr) : kr[j] < kr[i]})
        + Cardinality({j \in 1..(i - 1) : kr[j] = kr[i]}) + 1])

\* The sequence with seq[i] at position rank[i]
Permute(seq, rank) ==
    Listed([p \in 1..Len(seq) |-> seq[CHOOSE i \in 1..Len(seq) : rank[i] = p]])

\* seq sorted, kr[i] being the rank of the key of seq[i]
ListSort(seq, kr) == Permute(seq, SortRanks(kr))

\* Iteration over a set of str. CPython's order depends on the hash seed of
\* the process; the order only decides the order of candidates with distinct
\* names, which main() sorts by name before writing. Code point order here.
RECURSIVE SetToSeq(_)
SetToSeq(S) ==
    IF S = {} THEN <<>>
    ELSE LET m == CHOOSE x \in S : \A y \in S : ~StrLess(y, x)
         IN <<m>> \o SetToSeq(S \ {m})

\* seqs[lo] + ... + seqs[hi], by halves
RECURSIVE FlattenRange(_, _, _)
FlattenRange(seqs, lo, hi) ==
    IF lo > hi THEN <<>>
    ELSE IF lo = hi THEN seqs[lo]
    ELSE LET mid == (lo + hi) \div 2
         IN FlattenRange(seqs, lo, mid) \o FlattenRange(seqs, mid + 1, hi)

\* the concatenation of a list of lists
Flatten(seqs) == FlattenRange(seqs, 1, Len(seqs))

\* [seq[i] for i in range(len(seq)) if keep[i]]
FilterSeq(seq, keep) ==
    Flatten([i \in 1..Len(seq) |-> IF keep[i] THEN <<seq[i]>> ELSE <<>>])

\* collections.Counter (and defaultdict(int)) after `c[k] += 1` for every
\* k of keys, in order: a sequence of [key, count], a key at the place of
\* its first increment (dicts keep insertion order).
CounterOf(keys) ==
    LET n == Len(keys)
        first == [i \in 1..n |-> \A j \in 1..(i - 1) : keys[j] # keys[i]]
    IN FilterSeq([i \in 1..n |-> [key |-> keys[i],
                                  count |-> Cardinality({j \in 1..n : keys[j] = keys[i]})]],
                 first)

\* Counter.most_common(): by count, largest first, ties in insertion order
MostCommonAll(c) == ListSort(c, IntRanks([i \in 1..Len(c) |-> c[i].count], TRUE))

\* Counter.most_common(n)
MostCommon(c, n) == SubSeq(MostCommonAll(c), 1, IF Len(c) < n THEN Len(c) ELSE n)

(***************************************************************************)
(* enhance_extraction.py: the dictionaries.                                *)
(***************************************************************************)

KNOWN_MODELS == {
    "GPT", "BERT", "RoBERTa", "DALL-E", "CLIP", "Transformer", "ResNet", "YOLO",
    "ViT", "Diffusion", "GAN", "VAE", "CNN", "RNN", "LSTM", "GRU", "T5", "BART",
    "LLaMA", "Alpaca", "Vicuna", "Claude", "Gemini", "PaLM", "LaMDA", "Mistral",
    "Stable Diffusion", "ControlNet", "LoRA", "QLoRA", "PEFT", "Whisper",
    "SAM", "DINO", "MAE", "SimCLR", "BYOL", "SwAV", "MoCo", "DeiT", "Swin",
    "ConvNeXt", "EfficientNet", "MobileNet", "SqueezeNet", "DenseNet", "Inception",
    "AlexNet", "VGG", "U-Net", "Mask R-CNN", "Fast R-CNN", "Faster R-CNN",
    "RetinaNet", "CenterNet", "DETR", "YOLOv", "SSD", "R-CNN" }

KNOWN_INSTITUTIONS == {
    "OpenAI", "Anthropic", "DeepMind", "Google Research", "Google Brain",
    "Meta AI", "Facebook AI", "FAIR", "Microsoft Research", "MSR",
    "MIT", "Stanford", "Berkeley", "CMU", "Cornell", "Princeton",
    "Harvard", "Yale", "Oxford", "Cambridge", "ETH Zurich", "EPFL",
    "Max Planck", "INRIA", "MILA", "Vector Institute", "AI2",
    "Hugging Face", "Stability AI", "Midjourney", "Runway ML",
    "NVIDIA", "AMD", "Intel", "IBM Research", "Amazon Science",
    "Apple ML", "Tesla AI", "Baidu Research", "Alibaba DAMO",
    "Tencent AI Lab", "ByteDance", "JD AI", "Samsung Research" }

\* categorize_paper: topic_keywords, in the order of the dict
topic_keywords == <<
    [topic |-> "language-models", keywords |-> {"language model", "llm", "gpt", "bert", "transformer", "nlp", "text generation"}],
    [topic |-> "computer-vision", keywords |-> {"vision", "image", "visual", "detection", "segmentation", "cv", "cnn"}],
    [topic |-> "reinforcement-learning", keywords |-> {"reinforcement learning", "rl", "agent", "reward", "policy", "q-learning"}],
    [topic |-> "generative-ai", keywords |-> {"generative", "diffusion", "gan", "vae", "synthesis", "generation"}],
    [topic |-> "multimodal", keywords |-> {"multimodal", "cross-modal", "vision-language", "clip", "dalle"}],
    [topic |-> "optimization", keywords |-> {"optimization", "efficient", "compression", "quantization", "pruning"}],
    [topic |-> "robotics", keywords |-> {"robot", "robotic", "manipulation", "navigation", "embodied"}],
    [topic |-> "security", keywords |-> {"security", "privacy", "adversarial", "attack", "defense", "safety"}],
    [topic |-> "theory", keywords |-> {"theory", "theoretical", "proof", "bound", "convergence", "complexity"}],
    [topic |-> "applications", keywords |-> {"application", "medical", "finance", "science", "engineering", "biology"}] >>

\* enhanced_extraction: the hand-written concept entities
concepts == <<
    [name |-> "Transformer Architecture",
     summary |-> "Revolutionary neural network architecture that powers modern language models and beyond. Introduced attention mechanism.",
     tags |-> <<"architecture", "deep-learning", "breakthrough", "attention">>],
    [name |-> "Diffusion Models",
     summary |-> "Generative modeling approach that creates high-quality images and other content through iterative denoising.",
     tags |-> <<"generative-ai", "image-generation", "probabilistic-models">>],
    [name |-> "Large Language Models",
     summary |-> "Massive neural networks trained on vast text corpora, capable of understanding and generating human-like text.",
     tags |-> <<"nlp", "ai-models", "foundation-models", "text-generation">>],
    [name |-> "Foundation Models",
     summary |-> "Large-scale models trained on broad data that can be adapted to many downstream tasks.",
     tags |-> <<"ai-paradigm", "transfer-learning", "general-ai">>],
    [name |-> "Model Context Protocol",
     summary |-> "Open standard by Anthropic for integrating AI models with external tools and data sources.",
     tags |-> <<"ai-integration", "protocol", "tool-use", "anthropic">>] >>

(***************************************************************************)
(* extract_year_from_url, in both scripts.                                 *)
(***************************************************************************)

\* re.search(r'/abs/(\d{2})(\d{2})', url): the start of the leftmost match,
\* 0 when there is none.
AbsSearch(u) ==
    LET starts == {i \in 1..(Len(u) - 8) :
                      MatchAt(u, "/abs/", i) /\ \A k \in 5..8 : Char(u, i + k) \in DigitChars}
    IN IF starts = {} THEN 0 ELSE CHOOSE i \in starts : \A j \in starts : i <= j

\* The rule with a century rollover: YY from 91 on is 19YY
RolloverYear(u) ==
    IF Contains(u, "arxiv.org") /\ AbsSearch(u) # 0
    THEN LET year_prefix == Int_(SubSeq(u, AbsSearch(u) + 5, AbsSearch(u) + 6))
         IN IF year_prefix >= 91 THEN 1900 + year_prefix ELSE 2000 + year_prefix
    ELSE None

\* The rule that gives the year before 2000 + YY
PreviousYear(u) ==
    IF Contains(u, "arxiv.org") /\ AbsSearch(u) # 0
    THEN 2000 + Int_(SubSeq(u, AbsSearch(u) + 5, AbsSearch(u) + 6)) - 1
    ELSE None

\* enhance_extraction.py
extract_year_from_url(u) ==
    IF Contains(u, "arxiv.org")
    THEN LET m == AbsSearch(u)
         IN IF m # 0
            THEN LET year_prefix == Int_(SubSeq(u, m + 5, m + 6))
                 IN 2000 + year_prefix
            ELSE None
    ELSE None

\* extract_papers.py
basic_extract_year_from_url(u) ==
    IF Contains(u, "arxiv.org")
    THEN LET m == AbsSearch(u)
         IN IF m # 0
            THEN LET year_prefix == Int_(SubSeq(u, m + 5, m + 6))
                 IN IF year_prefix >= 0 THEN 2000 + year_prefix ELSE None
            ELSE None
    ELSE None

(***************************************************************************)
(* enhance_extraction.py: recognisers.                                     *)
(***************************************************************************)

\* str.lower() of the dictionary entries
LowerOf == [w \in KNOWN_MODELS \cup KNOWN_INSTITUTIONS |-> Lower(w)]

\* re.search(rf'\b{model}\b', text, re.IGNORECASE), lt being text.lower()
WordSearch(text, lt, model) ==
    \E i \in 1..(Len(text) - Len(model) + 1) :
        /\ MatchAt(lt, LowerOf[model], i)
        /\ Boundary(text, i)
        /\ Boundary(text, i + Len(model))

\* One match of version_pattern
\*   \b([A-Z][a-zA-Z]+(?:[A-Z][a-zA-Z]*)*(?:-)?v?\d+(?:\.\d+)?)\b
\* starting at i: the position after the match, 0 when there is none.
VersionAt(s, i) ==
    IF ~(i <= Len(s) /\ Boundary(s, i) /\ Char(s, i) \in UpperChars) THEN 0
    ELSE LET j == RunEnd(s, AlphaChars, i + 1)
             k == IF j <= Len(s) /\ Char(s, j) = "-" THEN j + 1 ELSE j
             v == IF k > j /\ k <= Len(s) /\ Char(s, k) = "v" THEN k + 1 ELSE k
             d == RunEnd(s, DigitChars, v)
             e == IF d <= Len(s) /\ Char(s, d) = "." THEN RunEnd(s, DigitChars, d + 1) ELSE d
         IN IF j < i + 2 \/ d = v THEN 0
            ELSE IF e > d + 1 /\ Boundary(s, e) THEN e
            ELSE IF Boundary(s, d) THEN d
            ELSE 0

\* re.findall(version_pattern, text)
RECURSIVE VersionMatches(_, _)
VersionMatches(s, i) ==
    IF i > Len(s) THEN {}
    ELSE LET e == VersionAt(s, i)
         IN IF e # 0 THEN {SubSeq(s, i, e - 1)} \cup VersionMatches(s, e)
            ELSE VersionMatches(s, i + 1)

\* One match of acronym_pattern  \(([A-Z]{2,}[A-Za-z0-9\-]*)\)  starting at
\* i: the position of the closing parenthesis, 0 when there is none.
AcronymAt(s, i) ==
    IF ~(i <= Len(s) /\ Char(s, i) = "(") THEN 0
    ELSE LET u == RunEnd(s, UpperChars, i + 1)
             t == RunEnd(s, AlphaChars \cup DigitChars \cup {"-"}, u)
         IN IF u >= i + 3 /\ t <= Len(s) /\ Char(s, t) = ")" THEN t ELSE 0

\* re.findall(acronym_pattern, text)
RECURSIVE AcronymMatches(_, _)
AcronymMatches(s, i) ==
    IF i > Len(s) THEN {}
    ELSE LET t == AcronymAt(s, i)
         IN IF t # 0 THEN {SubSeq(s, i + 1, t - 1)} \cup AcronymMatches(s, t + 1)
            ELSE AcronymMatches(s, i + 1)

extract_models_from_text(text) ==
    LET lt == Lower(text)
    IN {model \in KNOWN_MODELS : WordSearch(text, lt, model)}
    \cup {m \in VersionMatches(text, 1) : Len(m) > 3}
    \cup {m \in AcronymMatches(text, 1) : 2 < Len(m) /\ Len(m) < 15}

\* One match of email_pattern  @([a-zA-Z0-9\-]+\.[a-zA-Z]{2,})  starting at
\* i: <<position of the dot, position after the match>>, <<0, 0>> when none.
EmailAt(s, i) ==
    IF ~(i <= Len(s) /\ Char(s, i) = "@") THEN <<0, 0>>
    ELSE LET a == RunEnd(s, AlphaChars \cup DigitChars \cup {"-"}, i + 1)
             b == RunEnd(s, AlphaChars, a + 1)
         IN IF a > i + 1 /\ a <= Len(s) /\ Char(s, a) = "." /\ b >= a + 3
            THEN <<a, b>> ELSE <<0, 0>>

\* The institution names taken from the e-mail domains of the text
RECURSIVE EmailInstitutions(_, _)
EmailInstitutions(s, i) ==
    IF i > Len(s) THEN {}
    ELSE LET m == EmailAt(s, i)
         IN IF m[1] = 0 THEN EmailInstitutions(s, i + 1)
            ELSE LET domain == SubSeq(s, i + 1, m[2] - 1)
                     inst_name == Title(SubSeq(s, i + 1, m[1] - 1))
                 IN (IF (Contains(domain, "edu") \/ Contains(domain, "ac.")) /\ Len(inst_name) > 2
                     THEN {inst_name} ELSE {})
                    \cup EmailInstitutions(s, m[2])

extract_institutions_from_text(text, authors) ==
    LET lt == Lower(text)
    IN {inst \in KNOWN_INSTITUTIONS : Contains(lt, LowerOf[inst])}
    \cup EmailInstitutions(text, 1)

categorize_paper(title, abstract, categories) ==
    LET text == Lower(title \o " " \o abstract)
        n == Len(topic_keywords)
    IN FilterSeq([i \in 1..n |-> topic_keywords[i].topic],
                 [i \in 1..n |-> \E keyword \in topic_keywords[i].keywords : Contains(text, keyword)])

(***************************************************************************)
(* extract_papers.py: the patterns of process_papers_to_entities_and_events *)
(***************************************************************************)

\* One match of  \b([A-Z][a-zA-Z]*(?:[A-Z][a-zA-Z]*)+)\b  (CamelCase)
\* starting at i: the position after the match, 0 when there is none.
CamelAt(s, i) ==
    IF ~(i <= Len(s) /\ Boundary(s, i) /\ Char(s, i) \in UpperChars) THEN 0
    ELSE LET j == RunEnd(s, AlphaChars, i + 1)
         IN IF (\E k \in (i + 1)..(j - 1) : Char(s, k) \in UpperChars) /\ Boundary(s, j)
            THEN j ELSE 0

\* One match of  \b([A-Z][A-Z0-9\-]+[A-Z0-9])\b  (UPPERCASE-NAMES) starting
\* at i: the position after the longest match, 0 when there is none.
UpperAt(s, i) ==
    IF ~(i <= Len(s) /\ Boundary(s, i) /\ Char(s, i) \in UpperChars) THEN 0
    ELSE LET r == RunEnd(s, UpperChars \cup DigitChars \cup {"-"}, i + 1)
             ends == {e \in (i + 3)..r : Char(s, e - 1) \in UpperChars \cup DigitChars /\ Boundary(s, e)}
         IN IF ends = {} THEN 0 ELSE CHOOSE e \in ends : \A f \in ends : f <= e

ModelSuffixes == {"Net", "Model", "System", "Framework", "Engine"}

\* One match of  \b([A-Za-z]+(?:Net|Model|System|Framework|Engine))\b
\* starting at i: the position after the match, 0 when there is none.
SuffixAt(s, i) ==
    IF ~(i <= Len(s) /\ Boundary(s, i) /\ Char(s, i) \in AlphaChars) THEN 0
    ELSE LET j == RunEnd(s, AlphaChars, i)
         IN IF Boundary(s, j)
               /\ \E suf \in ModelSuffixes : j - i > Len(suf) /\ MatchAt(s, suf, j - Len(suf))
            THEN j ELSE 0

\* re.findall(pattern, text) for one of the three patterns
RECURSIVE FindAll(_, _, _)
FindAll(kind, s, i) ==
    IF i > Len(s) THEN {}
    ELSE LET e == CASE kind = "camel" -> CamelAt(s, i)
                    [] kind = "upper" -> UpperAt(s, i)
                    [] OTHER -> SuffixAt(s, i)
         IN IF e # 0 THEN {SubSeq(s, i, e - 1)} \cup FindAll(kind, s, e)
            ELSE FindAll(kind, s, i + 1)

\* potential_models of the loop body
potential_models(text) ==
    FindAll("camel", text, 1) \cup FindAll("upper", text, 1) \cup FindAll("suffix", text, 1)

common_words == {"The", "This", "These", "That", "Those", "Our", "We", "In", "On", "At",
                 "For", "With", "From", "To", "Of", "And", "Or", "But", "Not"}

\* The names the model loop would add if none were seen before: in
\* potential_models, not a common word, longer than 2, mentioned twice.
important_models(text) ==
    {model \in potential_models(text) :
        model \notin common_words /\ Len(model) > 2 /\ Count(text, model) >= 2}

(***************************************************************************)
(* The corpus: the paper records the source may hold.                      *)
(***************************************************************************)

Paper(id, title, abstract, authors, categories, u) ==
    [id |-> id,
     payload |-> [title |-> title, abstract |-> abstract, authors |-> authors,
                  categories |-> categories, url |-> u]]

\* Two ids with the same first 8 characters and the same year; an author
\* listed twice on one paper; a name that is an author and a model; an
\* empty author; a paper without a title; a url that is not an arXiv url.
PaperPool == {
    Paper("aaaaaaaa1", "GPT vision", "GPT (SAM) at MIT", <<"Ann", "GPT">>, <<"cs.AI">>,
          "https://arxiv.org/abs/2401.00001"),
    Paper("aaaaaaaa2", "ResNet for ResNet agents", "b@mit.edu", <<"Bob", "Bob", "">>, <<"cs.CV", "cs.AI">>,
          "https://arxiv.org/abs/2407.00002"),
    Paper("b3", "Zed", "", <<"Ann", "Zed">>, <<>>,
          "https://arxiv.org/abs/0012.00003"),
    Paper("c4", "", "gpt", <<"Ann">>, <<"cs.AI">>,
          "https://example.org/abs/2401.00004") }

\* The i-th paper of a large corpus: every paper has a title, a year, three
\* topics, an author whose name is that of a model, and two category codes
\* that differ only by '.' and '-'; the ids share their first 8 characters.
TrendPaper(i) ==
    Paper("dddddddd" \o Str(i), "GPT vision agents", "", <<"Ann", "GPT">>, <<"cs.AI", "cs-AI">>,
          "https://arxiv.org/abs/2301.00005")

\* The titles of the papers the year rule is tried on
YearTitles == {"", "Zed"}

\* The texts the recognisers are applied to
CorpusTexts ==
    {<<p.payload.title, p.payload.abstract>> : p \in PaperPool \cup {TrendPaper(1)}}
    \cup {<<t, "">> : t \in YearTitles}

\* What the recognisers return for the texts of the corpus. The loop bodies
\* below call the recognisers on title + " " + abstract of each paper; the
\* results are tabulated once here.
Recognised ==
    [t \in CorpusTexts |->
        LET full_text == t[1] \o " " \o t[2]
        IN [models |-> SetToSeq(extract_models_from_text(full_text)),
            institutions |-> SetToSeq(extract_institutions_from_text(full_text, <<>>)),
            topics |-> categorize_paper(t[1], t[2], <<>>),
            important |-> SetToSeq(important_models(full_text))]]

(***************************************************************************)
(* enhance_extraction.py: enhanced_extraction.                             *)
(* A paper is [id, payload |-> [title, authors, categories, abstract,      *)
(* url]]: every key the code reads with .get is present, and the point id  *)
(* is a str, so that str(paper_id) is paper_id.                            *)
(***************************************************************************)

\* The loop body up to "Track authors": what one paper adds to the counters
paper_info(paper) ==
    LET payload == paper.payload
        found == Recognised[<<payload.title, payload.abstract>>]
    IN [year |-> extract_year_from_url(payload.url),
        models |-> found.models,
        institutions |-> found.institutions,
        topics |-> found.topics,
        authors |-> FilterSeq(payload.authors,
                              [k \in 1..Len(payload.authors) |-> payload.authors[k] # ""])]

\* "Create paper publication event": the events one paper adds
paper_events(paper, info) ==
    IF paper.payload.title # "" /\ info.year # None
    THEN <<[id |-> Str(info.year) \o "-" \o Prefix(paper.id, 8),
            timestamp |-> Str(info.year) \o "-01-01T00:00:00Z",
            description |-> paper.payload.title,
            category |-> IF info.topics # <<>> THEN info.topics[1] ELSE "research"]>>
    ELSE <<>>

\* "Create entities for prominent authors", top being most_common(200)
author_entities(top) ==
    Flatten([i \in 1..Len(top) |->
        IF top[i].count >= 2
        THEN <<[name |-> top[i].key,
                summary |-> "Prolific researcher with " \o Str(top[i].count)
                            \o " papers in machine learning and AI. Active in cutting-edge research.",
                tags |-> <<"researcher", "ai-researcher", "prolific-author">>]>>
        ELSE <<>>])

\* "Create entities for frequently mentioned models", top being most_common(100)
model_entities(top) ==
    Flatten([i \in 1..Len(top) |->
        IF top[i].count >= 3
        THEN <<[name |-> top[i].key,
                summary |-> "Important AI model/architecture referenced in " \o Str(top[i].count)
                            \o " research papers. Key component in modern machine learning.",
                tags |-> <<"ai-model", "architecture", "machine-learning">>]>>
        ELSE <<>>])

\* "Create entities for institutions", top being most_common(50)
institution_entities(top) ==
    Flatten([i \in 1..Len(top) |->
        IF top[i].count >= 2
        THEN <<[name |-> top[i].key,
                summary |-> "Leading research institution with " \o Str(top[i].count)
                            \o " papers in the collection. Major contributor to AI/ML advancement.",
                tags |-> <<"institution", "research-lab", "university">>]>>
        ELSE <<>>])

\* "Create milestone events for research trends", top being most_common()
trend_events(top) ==
    Flatten([i \in 1..Len(top) |->
        IF top[i].count >= 20
        THEN <<[id |-> "2024-trend-" \o top[i].key,
                timestamp |-> "2024-06-01T00:00:00Z",
                description |-> "Research trend: " \o Str(top[i].count) \o " papers in "
                                \o Replace(top[i].key, "-", " ")
                                \o " showing significant academic focus",
                category |-> "research-trend"]>>
        ELSE <<>>])

\* "Create yearly milestone events", top being most_common()
yearly_events(top) ==
    Flatten([i \in 1..Len(top) |->
        IF top[i].count >= 50
        THEN <<[id |-> Str(top[i].key) \o "-research-milestone",
                timestamp |-> Str(top[i].key) \o "-06-01T00:00:00Z",
                description |-> "Research milestone: " \o Str(top[i].count)
                                \o " significant AI/ML papers published in " \o Str(top[i].key),
                category |-> "yearly-milestone"]>>
        ELSE <<>>])

\* The counters after the loop over the papers, info[i] being paper_info of
\* the i-th paper
paper_stats(info) ==
    [yearly_stats |-> CounterOf(Flatten([i \in 1..Len(info) |->
                         IF info[i].year # None THEN <<info[i].year>> ELSE <<>>])),
     model_stats |-> CounterOf(Flatten([i \in 1..Len(info) |-> info[i].models])),
     institution_stats |-> CounterOf(Flatten([i \in 1..Len(info) |-> info[i].institutions])),
     topic_stats |-> CounterOf(Flatten([i \in 1..Len(info) |-> info[i].topics])),
     author_stats |-> CounterOf(Flatten([i \in 1..Len(info) |-> info[i].authors]))]

\* What enhanced_extraction returns, given the loop's results
enhanced_result(ps, info, stats) ==
    [entities |-> author_entities(MostCommon(stats.author_stats, 200))
                  \o model_entities(MostCommon(stats.model_stats, 100))
                  \o institution_entities(MostCommon(stats.institution_stats, 50))
                  \o concepts,
     events |-> Flatten([i \in 1..Len(ps) |-> paper_events(ps[i], info[i])])
                \o trend_events(MostCommonAll(stats.topic_stats))
                \o yearly_events(MostCommonAll(stats.yearly_stats))]

enhanced_with(ps, info) == enhanced_result(ps, info, paper_stats(info))

\* The counters enhanced_extraction holds when its loop over ps has ended
enhanced_stats(ps) == paper_stats([i \in 1..Len(ps) |-> paper_info(ps[i])])

\* The counters before the first paper
NoStats == paper_stats(<<>>)

enhanced_extraction(ps) == enhanced_with(ps, [i \in 1..Len(ps) |-> paper_info(ps[i])])

(***************************************************************************)
(* extract_papers.py: process_papers_to_entities_and_events.               *)
(***************************************************************************)

\* One pass of the loop `for paper in papers`, given the year of the paper
\* and the names its model loop would add if none had been seen. st holds the
\* loop's state: seen_entities, author_papers (a dict, in insertion order),
\* entities, events.
process_step(st, paper, year, important, new_authors) ==
    LET title == paper.payload.title
        authors == paper.payload.authors
        categories == paper.payload.categories
        seen1 == st.seen_entities \cup Range(new_authors)
        new_models == FilterSeq(important,
            [k \in 1..Len(important) |-> important[k] \notin seen1])
        cats == SubSeq(categories, 1, IF Len(categories) < 3 THEN Len(categories) ELSE 3)
    IN [seen_entities |-> seen1 \cup Range(new_models),
        author_papers |-> st.author_papers
            \o [k \in 1..Len(new_authors) |-> [key |-> new_authors[k], titles |-> <<title>>]],
        entities |-> st.entities
            \o [k \in 1..Len(new_models) |->
                  [name |-> new_models[k],
                   summary |-> "Model/System mentioned in: " \o Prefix(title, 100) \o "...",
                   tags |-> <<"ai-model", "research">>
                            \o [c \in 1..Len(cats) |-> Replace(cats[c], "cs.", "")]]],
        events |->
            IF title # "" /\ year # None
            THEN Append(st.events,
                   [id |-> Str(year) \o "-paper-" \o paper.id,
                    timestamp |-> Str(year) \o "-01-01T00:00:00Z",
                    description |-> "Paper published: '" \o title \o "' by "
                        \o JoinWith(", ", SubSeq(authors, 1, IF Len(authors) < 3 THEN Len(authors) ELSE 3))
                        \o (IF Len(authors) > 3 THEN "..." ELSE ""),
                    category |-> "research-publication"])
            ELSE st.events]

\* for author in authors: if author and author not in seen_entities: add it
\* (the authors that are added, in order)
unseen_authors(seen, authors) ==
    FilterSeq(authors,
        [k \in 1..Len(authors) |->
            /\ authors[k] # ""
            /\ authors[k] \notin seen
            /\ \A j \in 1..(k - 1) : authors[j] # authors[k]])

process_paper(st, paper) ==
    process_step(st, paper,
                 basic_extract_year_from_url(paper.payload.url),
                 Recognised[<<paper.payload.title, paper.payload.abstract>>].important,
                 unseen_authors(st.seen_entities, paper.payload.authors))

\* The names a paper puts in seen_entities, or finds there: its non-empty
\* authors and its important models
paper_names(paper) ==
    {a \in Range(paper.payload.authors) : a # ""}
    \cup Range(Recognised[<<paper.payload.title, paper.payload.abstract>>].important)

\* seen_entities when the loop `for paper in papers` reaches ps[i]
seen_before(ps, i) == UNION {paper_names(ps[j]) : j \in 1..(i - 1)}

\* What each pass of the loop appends to author_papers, entities and events
process_steps(ps) ==
    [i \in 1..Len(ps) |->
        process_paper([seen_entities |-> seen_before(ps, i), author_papers |-> <<>>,
                       entities |-> <<>>, events |-> <<>>], ps[i])]

\* The loop's state after `for paper in papers`
loop_result(ps, steps) ==
    [seen_entities |-> seen_before(ps, Len(ps) + 1),
     author_papers |-> Flatten([i \in 1..Len(ps) |-> steps[i].author_papers]),
     entities |-> Flatten([i \in 1..Len(ps) |-> steps[i].entities]),
     events |-> Flatten([i \in 1..Len(ps) |-> steps[i].events])]

process_loop(ps) == loop_result(ps, process_steps(ps))

\* "Create author entities with their papers"
basic_author_entities(author_papers) ==
    [k \in 1..Len(author_papers) |->
        [name |-> author_papers[k].key,
         summary |-> "Researcher with " \o Str(Len(author_papers[k].titles))
                     \o " paper(s) in the collection. Recent work includes: "
                     \o Prefix(author_papers[k].titles[1], 100) \o "...",
         tags |-> <<"researcher", "ai-researcher", "author">>]]

\* "Create milestone events for major categories"
milestone_events(category_counts) ==
    Flatten([i \in 1..Len(category_counts) |->
        IF category_counts[i].count >= 50
        THEN <<[id |-> "2024-category-milestone-" \o Replace(category_counts[i].key, ".", "-"),
                timestamp |-> "2024-01-01T00:00:00Z",
                description |-> "Research milestone: " \o Str(category_counts[i].count)
                                \o " papers in " \o category_counts[i].key
                                \o " category demonstrating significant activity in this field",
                category |-> "research-milestone"]>>
        ELSE <<>>])

\* What process_papers_to_entities_and_events returns, st being the state
\* after the loop over the papers
basic_result(ps, st) ==
    [entities |-> st.entities \o basic_author_entities(st.author_papers),
     events |-> st.events
                \o milestone_events(CounterOf(Flatten([i \in 1..Len(ps) |-> ps[i].payload.categories])))]

process_papers_to_entities_and_events(ps) == basic_result(ps, process_loop(ps))

(***************************************************************************)
(* The corpus source: POST /collections/papers/points/scroll.              *)
(***************************************************************************)

\* Bounds of the model.
MaxRuns == 2        \* runs of a script in one behaviour
MaxPapers == 2      \* papers of a small corpus
PageSize == 1       \* points the source returns per page of a small corpus
TrendPapers == 50   \* papers of the large corpus, served as one page

\* seq[0:k], seq[k:2k], ...
RECURSIVE Chunks(_, _)
Chunks(seq, k) ==
    IF Len(seq) <= k THEN (IF seq = <<>> THEN <<>> ELSE <<seq>>)
    ELSE <<SubSeq(seq, 1, k)>> \o Chunks(SubSeq(seq, k + 1, Len(seq)), k)

SmallCorpora == UNION {[1..n -> PaperPool] : n \in 0..MaxPapers}

\* The large corpus
TrendCorpus == [i \in 1..TrendPapers |-> TrendPaper(i)]

\* The pages a source may hold. The request asks for at most 100 points per
\* page ("limit": 100); the source may return fewer.
Sources == {Chunks(c, PageSize) : c \in SmallCorpora} \cup {<<TrendCorpus>>}

\* dict.get(key, default); a dict is a function on its keys, {} is <<>>
Get(d, key, default) == IF key \in DOMAIN d THEN d[key] ELSE default

\* What the source may answer to a scroll request with this offset. A cursor
\* is the index of the page it points to; the first page has no cursor.
\*   page       : 200 {"result": {"points": [...], "next_page_offset": ...}}
\*   refused    : requests.post raises (connection error)
\*   not_json   : response.json() raises (the body is not JSON)
\*   null_result: {"result": null, ...}; None.get raises AttributeError
\*   error_json : an error status with Qdrant's body {"status": {"error": ...}}
Responses(pages, cursor) ==
    LET idx == IF cursor = None THEN 1 ELSE cursor
        points == IF idx <= Len(pages) THEN pages[idx] ELSE <<>>
        next == IF idx < Len(pages) THEN idx + 1 ELSE None
    IN {[kind |-> "page", body |-> [result |-> [points |-> points, next_page_offset |-> next]]],
        [kind |-> "refused", body |-> <<>>],
        [kind |-> "not_json", body |-> <<>>],
        [kind |-> "null_result", body |-> <<>>],
        [kind |-> "error_json", body |-> [status |-> [error |-> "Service internal error"]]]}

\* The responses on which the loop body raises
Raises(resp) == resp.kind \in {"refused", "not_json", "null_result"}

(***************************************************************************)
(* main() of both scripts: the merge and the sort.                         *)
(***************************************************************************)

\* The loop of enhance_extraction.py without `existing.add(e[key])`
AddWithoutAdd(list, existing, new, key) ==
    list \o FilterSeq(new, [i \in 1..Len(new) |-> new[i][key] \notin existing])

\* A merge that appends every candidate, whatever the store holds
AddAll(list, existing, new, key) == list \o new

\* A sort that leaves the list as it is
Unsorted(list) == list

\* enhance_extraction.py: for e in new: if e[key] not in existing:
\* list.append(e); existing.add(e[key]). When the loop reaches new[i], existing
\* holds the keys it started with and the keys of new[1..i-1].
AddUnique(list, existing, new, key) ==
    list \o FilterSeq(new, [i \in 1..Len(new) |->
                /\ new[i][key] \notin existing
                /\ \A j \in 1..(i - 1) : new[j][key] # new[i][key]])

\* extract_papers.py: existing + [e for e in new if e[key] not in existing]
AddNew(list, existing, new, key) ==
    list \o FilterSeq(new, [i \in 1..Len(new) |-> new[i][key] \notin existing])

\* entities.sort(key=lambda x: x["name"])
SortEntities(list) ==
    ListSort(list, StrRanks([i \in 1..Len(list) |-> list[i].name], FALSE))

\* events.sort(key=lambda x: x["timestamp"], reverse=True)
SortEvents(list) ==
    ListSort(list, StrRanks([i \in 1..Len(list) |-> list[i].timestamp], TRUE))

\* A merge in which a candidate replaces the stored record with its key
RefreshingMerge(ents, evs, new_ents, new_evs) ==
    [entities |-> SortEntities(
        FilterSeq(ents, [i \in 1..Len(ents) |->
                     \A k \in 1..Len(new_ents) : new_ents[k].name # ents[i].name])
        \o AddUnique(<<>>, {}, new_ents, "name")),
     events |-> SortEvents(
        FilterSeq(evs, [i \in 1..Len(evs) |->
                     \A k \in 1..Len(new_evs) : new_evs[k].id # evs[i].id])
        \o AddUnique(<<>>, {}, new_evs, "id"))]

\* enhance_extraction.py main(): merge avoiding duplicates, then sort
enhanced_merge(ents, evs, new_ents, new_evs) ==
    [entities |-> SortEntities(AddUnique(ents, {ents[i].name : i \in 1..Len(ents)}, new_ents, "name")),
     events |-> SortEvents(AddUnique(evs, {evs[i].id : i \in 1..Len(evs)}, new_evs, "id"))]

\* extract_papers.py main(): merge with existing data, then sort
basic_merge(ents, evs, new_ents, new_evs) ==
    [entities |-> SortEntities(AddNew(ents, {ents[i].name : i \in 1..Len(ents)}, new_ents, "name")),
     events |-> SortEvents(AddNew(evs, {evs[i].id : i \in 1..Len(evs)}, new_evs, "id"))]

Merge(pipe, ents, evs, new_ents, new_evs) ==
    IF pipe = "enhanced" THEN enhanced_merge(ents, evs, new_ents, new_evs)
    ELSE basic_merge(ents, evs, new_ents, new_evs)

(***************************************************************************)
(* The persisted store. A file holds a JSON array (valid) or, after a      *)
(* write that failed part-way, a truncated text that does not parse.       *)
(***************************************************************************)

File(items) == [valid |-> TRUE, items |-> items]
Truncated == [valid |-> FALSE, items |-> <<>>]

\* A store written by hand before the first run: sorted, keys unique, with
\* an entity and an event whose keys the extraction also produces.
SeedEntities == <<
    [name |-> "Ann", summary |-> "Ann, entered by hand.", tags |-> <<"person">>],
    [name |-> "Zoe", summary |-> "Zoe, entered by hand.", tags |-> <<"person">>] >>

SeedEvents == <<
    [id |-> "launch", timestamp |-> "2025-03-01T09:00:00Z",
     description |-> "Store created", category |-> "research"],
    [id |-> "2024-aaaaaaaa", timestamp |-> "2024-01-01T00:00:00Z",
     description |-> "Entered by hand", category |-> "research"] >>

InitStores == {[entities |-> <<>>, events |-> <<>>],
               [entities |-> SeedEntities, events |-> SeedEvents]}

(***************************************************************************)
(* The runs of the two scripts.                                            *)
(***************************************************************************)

Pipelines == {"enhanced", "basic"}

Init ==
    /\ pipeline = "enhanced"
    /\ pc = "idle"
    /\ srcPages = <<>>
    /\ papers = <<>>
    /\ offset = None
    /\ new_entities = <<>>
    /\ new_events = <<>>
    /\ entities = <<>>
    /\ events = <<>>
    /\ \E st \in InitStores :
          /\ entFile = File(st.entities)
          /\ evFile = File(st.events)
          /\ prevEnt = File(st.entities)
          /\ prevEv = File(st.events)
    /\ runs = 0
    /\ arg_url = ""
    /\ ret_year = None
    /\ counts = NoStats

\* `python extract_papers.py` or `python enhance_extraction.py` is started,
\* against whatever the source holds now; extract_all_papers begins.
StartRun ==
    /\ pc \in {"idle", "done", "failed"}
    /\ runs < MaxRuns
    /\ \E pipe \in Pipelines, pages \in Sources :
          /\ pipeline' = pipe
          /\ srcPages' = pages
    /\ pc' = "fetch"
    /\ papers' = <<>>
    /\ offset' = None
    /\ new_entities' = <<>>
    /\ new_events' = <<>>
    /\ entities' = <<>>
    /\ events' = <<>>
    /\ prevEnt' = entFile
    /\ prevEv' = evFile
    /\ counts' = NoStats
    /\ runs' = runs + 1
    /\ UNCHANGED <<entFile, evFile, arg_url, ret_year>>

\* extract_all_papers: one pass of `while True`
FetchPage ==
    /\ pc = "fetch"
    /\ \E resp \in Responses(srcPages, offset) :
          IF Raises(resp)
          THEN /\ pc' = "failed"
               /\ UNCHANGED <<papers, offset>>
          ELSE LET result == resp.body
                   batch == Get(Get(result, "result", <<>>), "points", <<>>)
                   next == Get(Get(result, "result", <<>>), "next_page_offset", None)
               IN IF batch = <<>>
                  THEN /\ pc' = "extract"
                       /\ UNCHANGED <<papers, offset>>
                  ELSE /\ papers' = papers \o batch
                       /\ offset' = next
                       /\ pc' = IF next = None THEN "extract" ELSE "fetch"
    /\ UNCHANGED <<pipeline, srcPages, new_entities, new_events, entities, events,
                   entFile, evFile, prevEnt, prevEv, runs, arg_url, ret_year, counts>>

\* The corpora a run can have fetched when the scroll loop ends
Corpora == SmallCorpora \cup {TrendCorpus}

\* What each pipeline extracts from each of these corpora, and the counters
\* enhanced_extraction builds on the way, tabulated once
Extraction ==
    [ps \in Corpora |-> [enhanced |-> enhanced_extraction(ps),
                         basic |-> process_papers_to_entities_and_events(ps),
                         stats |-> enhanced_stats(ps)]]

\* main: the extraction over the papers that were fetched
Extract ==
    /\ pc = "extract"
    /\ \E x \in {Extraction[papers]} :
          /\ new_entities' = x[pipeline].entities
          /\ new_events' = x[pipeline].events
          /\ counts' = IF pipeline = "enhanced" THEN x.stats ELSE NoStats
    /\ pc' = "load_entities"
    /\ UNCHANGED <<pipeline, srcPages, papers, offset, entities, events,
                   entFile, evFile, prevEnt, prevEv, runs, arg_url, ret_year>>

\* main: json.load of data/entities.json
LoadEntities ==
    /\ pc = "load_entities"
    /\ IF entFile.valid
       THEN /\ entities' = entFile.items
            /\ pc' = "load_events"
       ELSE /\ pc' = "failed"
            /\ UNCHANGED entities
    /\ UNCHANGED <<pipeline, srcPages, papers, offset, new_entities, new_events, events,
                   entFile, evFile, prevEnt, prevEv, runs, arg_url, ret_year, counts>>

\* main: json.load of data/events.json
LoadEvents ==
    /\ pc = "load_events"
    /\ IF evFile.valid
       THEN /\ events' = evFile.items
            /\ pc' = "merge"
       ELSE /\ pc' = "failed"
            /\ UNCHANGED events
    /\ UNCHANGED <<pipeline, srcPages, papers, offset, new_entities, new_events, entities,
                   entFile, evFile, prevEnt, prevEv, runs, arg_url, ret_year, counts>>

\* main: merge the candidates into the loaded lists and sort both
MergeAndSort ==
    /\ pc = "merge"
    /\ LET m == Merge(pipeline, entities, events, new_entities, new_events)
       IN /\ entities' = m.entities
          /\ events' = m.events
    /\ pc' = "write_entities"
    /\ UNCHANGED <<pipeline, srcPages, papers, offset, new_entities, new_events,
                   entFile, evFile, prevEnt, prevEv, runs, arg_url, ret_year, counts>>

\* What `with open(path, "w") as f: json.dump(items, f, indent=2)` may leave
\* in a file: the new array; the old content when open() fails; a truncated
\* text when the write fails after open() emptied the file.
WriteOutcomes(old, items) ==
    {[file |-> File(items), ok |-> TRUE],
     [file |-> old, ok |-> FALSE],
     [file |-> Truncated, ok |-> FALSE]}

\* main: write data/entities.json
WriteEntities ==
    /\ pc = "write_entities"
    /\ \E w \in WriteOutcomes(entFile, entities) :
          /\ entFile' = w.file
          /\ pc' = IF w.ok THEN "write_events" ELSE "failed"
    /\ UNCHANGED <<pipeline, srcPages, papers, offset, new_entities, new_events, entities,
                   events, evFile, prevEnt, prevEv, runs, arg_url, ret_year, counts>>

\* main: write data/events.json
WriteEvents ==
    /\ pc = "write_events"
    /\ \E w \in WriteOutcomes(evFile, events) :
          /\ evFile' = w.file
          /\ pc' = IF w.ok THEN "done" ELSE "failed"
    /\ UNCHANGED <<pipeline, srcPages, papers, offset, new_entities, new_events, entities,
                   events, entFile, prevEnt, prevEv, runs, arg_url, ret_year, counts>>

Next ==
    \/ StartRun
    \/ FetchPage
    \/ Extract
    \/ LoadEntities
    \/ LoadEvents
    \/ MergeAndSort
    \/ WriteEntities
    \/ WriteEvents

Spec == Init /\ [][Next]_vars

(***************************************************************************)
(* extract_year_from_url on its own, and the extraction over one paper     *)
(* with that url.                                                          *)
(***************************************************************************)

MaxUrlParts == 4

UrlParts == {"arxiv.org", "/abs/", "00", "24", "99", "7"}

\* The urls of the docstrings and of the spec, and urls with two places
\* where /abs/ is followed by digits
ExampleUrls ==
    {"https://arxiv.org/abs/2502.19614", "https://arxiv.org/abs/2402.12345",
     "arxiv.org/abs/2499/abs/9900", "arxiv.org/abs/247/abs/9900",
     "https://example.org/abs/2401.00004"}

Urls ==
    {Join(parts) : parts \in UNION {[1..n -> UrlParts] : n \in 0..MaxUrlParts}}
    \cup ExampleUrls

InitYear ==
    /\ pipeline \in Pipelines
    /\ pc = "call"
    /\ arg_url \in Urls
    /\ \E title \in YearTitles :
          papers = <<Paper("p1", title, "", <<"Ann">>, <<>>, arg_url)>>
    /\ srcPages = <<>>
    /\ offset = None
    /\ new_entities = <<>>
    /\ new_events = <<>>
    /\ entities = <<>>
    /\ events = <<>>
    /\ entFile = File(<<>>)
    /\ evFile = File(<<>>)
    /\ prevEnt = File(<<>>)
    /\ prevEv = File(<<>>)
    /\ runs = 0
    /\ ret_year = None
    /\ counts = NoStats

\* year = extract_year_from_url(url)
CallYear ==
    /\ pc = "call"
    /\ ret_year' = IF pipeline = "enhanced" THEN extract_year_from_url(arg_url)
                   ELSE basic_extract_year_from_url(arg_url)
    /\ pc' = "returned"
    /\ UNCHANGED <<pipeline, srcPages, papers, offset, new_entities, new_events, entities,
                   events, entFile, evFile, prevEnt, prevEv, runs, arg_url, counts>>

\* The extraction over the one paper with that url
ExtractOne ==
    /\ pc = "returned"
    /\ LET r == IF pipeline = "enhanced" THEN enhanced_extraction(papers)
                ELSE process_papers_to_entities_and_events(papers)
       IN /\ new_entities' = r.entities
          /\ new_events' = r.events
    /\ counts' = IF pipeline = "enhanced" THEN enhanced_stats(papers) ELSE NoStats
    /\ pc' = "extracted"
    /\ UNCHANGED <<pipeline, srcPages, papers, offset, entities, events,
                   entFile, evFile, prevEnt, prevEv, runs, arg_url, ret_year>>

NextYear == CallYear \/ ExtractOne

SpecYear == InitYear /\ [][NextYear]_vars

(***************************************************************************)
(* Properties.                                                             *)
(***************************************************************************)

NamesOf(list) == [i \in 1..Len(list) |-> list[i].name]
IdsOf(list) == [i \in 1..Len(list) |-> list[i].id]

\* No value occurs twice in seq
NoRepeat(seq) == \A i, j \in 1..Len(seq) : i # j => seq[i] # seq[j]

\* The records of list whose field key is v, in order
WithKey(list, key, v) == FilterSeq(list, [i \in 1..Len(list) |-> list[i][key] = v])

\* The run has merged and sorted, and has not failed since
Merged == pc \in {"write_entities", "write_events", "done"}

\* C1. Key uniqueness of the enhanced pipeline: when a run of
\* enhance_extraction.main that started from a store with pairwise distinct
\* entity names and pairwise distinct event ids has written both files, no
\* two written entities share a name and no two written events share an id.
C1_EnhancedKeysUnique ==
    (/\ pc = "done"
     /\ pipeline = "enhanced"
     /\ NoRepeat(NamesOf(prevEnt.items))
     /\ NoRepeat(IdsOf(prevEv.items)))
    => /\ NoRepeat(NamesOf(entFile.items))
       /\ NoRepeat(IdsOf(evFile.items))

\* An enhanced run has written a store although its candidates repeated a
\* name (an author who is also a model) and an id (ids with the same first 8
\* characters and the same year).
C1_Witness ==
    /\ pc = "done"
    /\ pipeline = "enhanced"
    /\ NoRepeat(NamesOf(prevEnt.items))
    /\ NoRepeat(IdsOf(prevEv.items))
    /\ ~NoRepeat(NamesOf(new_entities))
    /\ ~NoRepeat(IdsOf(new_events))
    /\ Len(entFile.items) > Len(prevEnt.items)
    /\ Len(evFile.items) > Len(prevEv.items)

\* C2. Idempotence of merge: merging the same candidates a second time into
\* the result of the first merge gives the same entity records and the same
\* event records, and neither list grows.
C2_MergeIdempotent ==
    Merged =>
        LET again == Merge(pipeline, entities, events, new_entities, new_events)
        IN /\ Range(again.entities) = Range(entities)
           /\ Range(again.events) = Range(events)
           /\ Len(again.entities) = Len(entities)
           /\ Len(again.events) = Len(events)

\* A merge has added candidates to a store that was not empty.
C2_Witness ==
    /\ pc = "write_entities"
    /\ prevEnt.items # <<>>
    /\ prevEv.items # <<>>
    /\ Len(entities) > Len(prevEnt.items)
    /\ Len(events) > Len(prevEv.items)

\* C3. Merge leaves existing records alone: after the merge, the records
\* with a key that was in the store before the run are exactly the records
\* the store held under that key, every field unchanged; a candidate with
\* such a key is skipped.
C3_ExistingKept ==
    Merged =>
        /\ \A i \in 1..Len(prevEnt.items) :
              WithKey(entities, "name", prevEnt.items[i].name)
              = WithKey(prevEnt.items, "name", prevEnt.items[i].name)
        /\ \A i \in 1..Len(prevEv.items) :
              WithKey(events, "id", prevEv.items[i].id)
              = WithKey(prevEv.items, "id", prevEv.items[i].id)

\* A run has written a store for which a candidate entity and a candidate
\* event had a stored key and other field values.
C3_Witness ==
    /\ pc = "done"
    /\ \E k \in 1..Len(new_entities) :
          /\ new_entities[k].name \in Range(NamesOf(prevEnt.items))
          /\ new_entities[k] \notin Range(prevEnt.items)
    /\ \E k \in 1..Len(new_events) :
          /\ new_events[k].id \in Range(IdsOf(prevEv.items))
          /\ new_events[k] \notin Range(prevEv.items)

\* C4. Failure atomicity of persistence: when a run has ended in a fatal
\* condition, both files hold what they held when the run started.
C4_StoreUntouchedOnFailure ==
    pc = "failed" => (entFile = prevEnt /\ evFile = prevEv)

\* The scroll loop has ended without raising
Fetched ==
    pc \in {"extract", "load_entities", "load_events", "merge",
            "write_entities", "write_events", "done"}

\* C5. No silent truncation of the corpus: when extract_all_papers has
\* returned, the papers are the concatenation of every page the source holds.
C5_CompleteCorpus == Fetched => papers = Flatten(srcPages)

\* seq is non-decreasing in the order of str
NonDecreasing(seq) == \A i \in 1..(Len(seq) - 1) : ~StrLess(seq[i + 1], seq[i])

\* seq is non-increasing in the order of str
NonIncreasing(seq) == \A i \in 1..(Len(seq) - 1) : ~StrLess(seq[i], seq[i + 1])

\* C6. Sort invariant: after every successful run the written entities are
\* non-decreasing by name and the written events are non-increasing by
\* timestamp, the records the store held before the run included.
C6_Sorted ==
    pc = "done" =>
        /\ NonDecreasing(NamesOf(entFile.items))
        /\ NonIncreasing([i \in 1..Len(evFile.items) |-> evFile.items[i].timestamp])

\* A run has written a store in which new records come before records the
\* store held already: the last entity and the first event are old ones, and
\* both lists have grown.
C6_Witness ==
    /\ pc = "done"
    /\ Len(entFile.items) > Len(prevEnt.items)
    /\ Len(evFile.items) > Len(prevEv.items)
    /\ prevEnt.items # <<>>
    /\ prevEv.items # <<>>
    /\ new_entities # <<>>
    /\ StrLess(new_entities[1].name, prevEnt.items[Len(prevEnt.items)].name)
    /\ \E k \in 1..Len(new_events) :
          /\ new_events[k].id \notin Range(IdsOf(prevEv.items))
          /\ StrLess(prevEv.items[Len(prevEv.items)].timestamp, new_events[k].timestamp)

\* The number of papers of the corpus that list a among their authors
PapersOf(a) ==
    Cardinality({i \in 1..Len(papers) : a \in Range(papers[i].payload.authors)})

\* An entity of the block "Create entities for prominent authors"
IsAuthorEntity(e) == e.tags = <<"researcher", "ai-researcher", "prolific-author">>

\* enhanced_extraction has returned into new_entities
Extracted ==
    pc \in {"load_entities", "load_events", "merge", "write_entities", "write_events", "done"}

\* C7. Author threshold boundary, an author counted once per paper: an author
\* on exactly 1 paper of the corpus has no author entity, an author on
\* exactly 2 papers has one.
C7_AuthorThreshold ==
    (Extracted /\ pipeline = "enhanced") =>
        \A i \in 1..Len(papers) : \A a \in Range(papers[i].payload.authors) \ {""} :
            LET made == \E k \in 1..Len(new_entities) :
                            IsAuthorEntity(new_entities[k]) /\ new_entities[k].name = a
            IN /\ PapersOf(a) = 1 => ~made
               /\ PapersOf(a) = 2 => made

\* C10. Key uniqueness of the basic pipeline: when a run of
\* extract_papers.main that started from a store with pairwise distinct
\* entity names and pairwise distinct event ids has written both files, no
\* two written entities share a name and no two written events share an id.
C10_BasicKeysUnique ==
    (/\ pc = "done"
     /\ pipeline = "basic"
     /\ NoRepeat(NamesOf(prevEnt.items))
     /\ NoRepeat(IdsOf(prevEv.items)))
    => /\ NoRepeat(NamesOf(entFile.items))
       /\ NoRepeat(IdsOf(evFile.items))

\* The places of url where /abs/ is immediately followed by four digits
AbsPlaces(url) ==
    {i \in 1..Len(url) :
        /\ i + 8 <= Len(url)
        /\ SubSeq(url, i, i + 4) = "/abs/"
        /\ \A k \in 5..8 : SubSeq(url, i + k, i + k) \in DigitChars}

\* The number a decimal digit stands for
DigitValue(c) == Ord[c] - Ord["0"]

\* The one paper of the year specification
ThePaper == papers[1]

\* C8. Year-extraction rule: extract_year_from_url returns 2000 + YY when the
\* url contains arxiv.org and has a place where /abs/ is followed by four
\* digits, YY being the first two digits at the leftmost such place, and no
\* year otherwise; a paper without a year contributes no publication event
\* and no year count, a paper with a title and a year exactly one
\* publication event, with timestamp <year>-01-01T00:00:00Z.
C8_YearRule ==
    /\ pc \in {"returned", "extracted"} =>
          IF Contains(arg_url, "arxiv.org") /\ AbsPlaces(arg_url) # {}
          THEN \E i \in AbsPlaces(arg_url) :
                  /\ \A j \in AbsPlaces(arg_url) : i <= j
                  /\ ret_year = 2000 + 10 * DigitValue(SubSeq(arg_url, i + 5, i + 5))
                                     + DigitValue(SubSeq(arg_url, i + 6, i + 6))
          ELSE ret_year = None
    /\ (pc = "extracted" /\ ret_year = None) =>
          /\ new_events = <<>>
          /\ counts.yearly_stats = <<>>
    /\ (pc = "extracted" /\ ret_year # None /\ ThePaper.payload.title # "") =>
          /\ Len(new_events) = 1
          /\ \E i \in AbsPlaces(arg_url) :
                new_events[1].timestamp
                = "20" \o SubSeq(arg_url, i + 5, i + 6) \o "-01-01T00:00:00Z"
          /\ pipeline = "enhanced" => counts.yearly_stats = <<[key |-> ret_year, count |-> 1]>>

\* The extraction has run over a paper with a title whose url has two places
\* with digits after /abs/, the leftmost with YY = 24, the other with 99.
C8_Witness ==
    /\ pc = "extracted"
    /\ ret_year = 2024
    /\ arg_url = "arxiv.org/abs/2499/abs/9900"
    /\ Cardinality(AbsPlaces(arg_url)) = 2
    /\ ThePaper.payload.title # ""
    /\ Len(new_events) = 1

\* The url of the documented example
ExampleUrl == "https://arxiv.org/abs/2502.19614"

\* C9, as the specification states it: the year of the documented example
\* is 2024.
C9_Example2024 ==
    (pc = "returned" /\ arg_url = ExampleUrl) => ret_year = 2024

\* C9, as the code has it: the year of the documented example is 2025.
C9_Example2025 ==
    (pc = "returned" /\ arg_url = ExampleUrl) => ret_year = 2025

\* extract_year_from_url has returned for the documented example.
C9_Witness ==
    /\ pc = "returned"
    /\ arg_url = ExampleUrl
    /\ ret_year # None

\* The orderings of the collection of paper records ps
Reorderings(ps) ==
    {Listed([i \in 1..Len(ps) |-> ps[p[i]]]) :
        p \in {f \in [1..Len(ps) -> 1..Len(ps)] : Range(f) = 1..Len(ps)}}

\* Two Counters are equal as Python dictionaries: the same keys with the
\* same counts, whatever the order of insertion
SameCounter(c, d) == Range(c) = Range(d)

SameTables(s, t) ==
    /\ SameCounter(s.yearly_stats, t.yearly_stats)
    /\ SameCounter(s.model_stats, t.model_stats)
    /\ SameCounter(s.institution_stats, t.institution_stats)
    /\ SameCounter(s.topic_stats, t.topic_stats)
    /\ SameCounter(s.author_stats, t.author_stats)

\* The run of enhance_extraction.main is over a corpus small enough for all
\* its orderings to be compared, and has written both files
SmallRunDone ==
    /\ pc = "done"
    /\ pipeline = "enhanced"
    /\ Len(papers) <= MaxPapers

\* C11. Order independence of a run: when enhance_extraction.main has written
\* the store, every other ordering of the same paper records, processed from
\* the same starting store, gives equal aggregate count tables and writes the
\* same set of entity records and the same set of event records.
C11_OrderIndependent ==
    SmallRunDone =>
        \A qs \in Reorderings(papers) :
            \E x \in {Extraction[qs]} :
                \E m \in {Merge("enhanced", prevEnt.items, prevEv.items,
                                x.enhanced.entities, x.enhanced.events)} :
                    /\ SameTables(x.stats, counts)
                    /\ Range(m.entities) = Range(entFile.items)
                    /\ Range(m.events) = Range(evFile.items)

\* The part of C11 about the aggregate count tables alone: every ordering of
\* the paper records gives the same five count tables.
C11_CountsOrderFree ==
    SmallRunDone =>
        \A qs \in Reorderings(papers) :
            \E x \in {Extraction[qs]} : SameTables(x.stats, counts)

\* The part of C11 about the entity records alone: every ordering writes the
\* same set of entity records.
C11_EntitiesOrderFree ==
    SmallRunDone =>
        \A qs \in Reorderings(papers) :
            \E x \in {Extraction[qs]} :
                \E m \in {Merge("enhanced", prevEnt.items, prevEv.items,
                                x.enhanced.entities, x.enhanced.events)} :
                    Range(m.entities) = Range(entFile.items)

====
